---------------------------- MODULE Spec2Model ----------------------------
(***************************************************************************)
(* A model of AustraliaVehicle (src/src/vehicles/australia.vehicle.ts):    *)
(* the vehicle handle with its rate-limit state (serverRates), its         *)
(* last-known caches (_status, _odometer, _location, _fullStatus) and its  *)
(* public operations.  JavaScript is single threaded and an async method   *)
(* runs to completion between two awaits, so an action is either a whole   *)
(* operation (Spec, SpecStatus, SpecRates) or the code between two awaits  *)
(* of one call (SpecConcurrent).                                           *)
(*                                                                         *)
(* JavaScript values are records tagged by the field t, so that values of  *)
(* different types can be compared.                                        *)
(***************************************************************************)
EXTENDS Integers, Sequences, FiniteSets, TLC

VARIABLES
    ccs2,          \* vehicleConfig.ccuCCS2ProtocolSupport
    serverRates,   \* the rate state: max, current, reset, updatedAt
    _status,       \* cache written by status()
    _odometer,     \* cache written by odometer()
    _location,     \* cache written by location()
    _fullStatus,   \* cache written by fullStatus()
    now,           \* the clock read by new Date(), in milliseconds
    calls,         \* the status() calls in flight, by call id
    order,         \* the ids of the status() calls, in the order they were normalized
    last,          \* what the last completed operation did
    tracked        \* the last limit-carrying responses the rate tracker was given

vars == <<ccs2, serverRates, _status, _odometer, _location, _fullStatus,
          now, calls, order, last, tracked>>

caches == <<_status, _odometer, _location, _fullStatus>>

-----------------------------------------------------------------------------
(* Bounds of the model. *)

\* The clock stops advancing here.
MaxClock == 2

\* The number of concurrent status() calls.
MaxCalls == 2

-----------------------------------------------------------------------------
(* JavaScript values. *)

Undefined == [t |-> "undefined"]
Null == [t |-> "null"]
NaN == [t |-> "NaN"]
True == [t |-> "boolean", b |-> TRUE]
Bool(b) == [t |-> "boolean", b |-> b]
Num(n) == [t |-> "number", v |-> n]
\* A string of decimal digits, as a sequence of digits.
Str(digits) == [t |-> "string", s |-> digits]
\* new Date(ms)
Date(ms) == [t |-> "Date", ms |-> ms]

\* x == null
Nullish(x) == x.t \in {"undefined", "null"}

\* The truthiness of a value: if (x), !x, x || y, x ? a : b.
Truthy(x) ==
    CASE x.t \in {"undefined", "null", "NaN"} -> FALSE
      [] x.t = "number" -> x.v # 0
      [] x.t = "boolean" -> x.b
      [] x.t = "string" -> x.s # <<>>
      [] OTHER -> TRUE

\* x ?? y
Coalesce(x, y) == IF Nullish(x) THEN y ELSE x

\* The number a string of decimal digits denotes.
RECURSIVE Dec(_)
Dec(digits) ==
    IF digits = <<>> THEN 0
    ELSE 10 * Dec(SubSeq(digits, 1, Len(digits) - 1)) + digits[Len(digits)]

\* Number(x), for the values a header can have.
ToNumber(x) ==
    CASE x.t = "undefined" -> NaN
      [] x.t = "string" -> Num(Dec(x.s))
      [] OTHER -> x

\* x + y on numbers.
Plus(x, y) == IF x.t = "number" /\ y.t = "number" THEN Num(x.v + y.v) ELSE NaN

-----------------------------------------------------------------------------
(* The rate tracker. *)

\* The values of the three rate headers of a response; Undefined: not sent.
LimitValues == {Undefined, Str(<<2>>), Str(<<1, 0>>)}
RemainingValues == {Undefined, Str(<<0>>), Str(<<7>>)}
ResetValues == {Undefined, Str(<<3>>), Str(<<1, 7>>)}

Headers == [limit : LimitValues, remaining : RemainingValues, reset : ResetValues]

\* new Date(Number(`${reset}000`))
ResetDateHundredfold(reset) == Date(Dec(reset.s \o <<0, 0>>))
ResetDate(reset) == Date(Dec(reset.s \o <<0, 0, 0>>))

\* updateRates(resp): the rate state after the response's headers were read.
updateRatesStamp(rates, headers, clock) ==
    IF Truthy(headers.limit)
    THEN [max |-> ToNumber(headers.limit),
          current |-> ToNumber(headers.remaining),
          reset |-> IF Truthy(headers.reset) THEN ResetDate(headers.reset) ELSE rates.reset,
          updatedAt |-> Date(clock)]
    ELSE [rates EXCEPT !.updatedAt = Date(clock)]
updateRatesClearsReset(rates, headers, clock) ==
    IF Truthy(headers.limit)
    THEN [max |-> ToNumber(headers.limit),
          current |-> ToNumber(headers.remaining),
          reset |-> IF Truthy(headers.reset) THEN ResetDate(headers.reset) ELSE Undefined,
          updatedAt |-> Date(clock)]
    ELSE rates
updateRates(rates, headers, clock) ==
    IF Truthy(headers.limit)
    THEN [max |-> ToNumber(headers.limit),
          current |-> ToNumber(headers.remaining),
          reset |-> IF Truthy(headers.reset) THEN ResetDate(headers.reset) ELSE rates.reset,
          updatedAt |-> Date(clock)]
    ELSE rates

\* What a function did: it threw err, or (err = NoError) returned value.
NoError == [name |-> "none"]
Return(value) == [err |-> NoError, value |-> value]
Throw(err) == [err |-> err, value |-> Undefined]

\* The errors: a TypeError of the runtime (a property read of undefined), the
\* two errors status() and parseCCS2VehicleStatus throw, the error of
\* setChargeTargets (its message ends with the joined list of the values), the
\* string startCharge and stopCharge throw, and a rejected request.
TypeError == [name |-> "TypeError"]
MissingVehicleStatus == [name |-> "Error", message |-> "missing vehicle status in response"]
MissingVehicleState ==
    [name |-> "Error", message |-> "missing vehicle state in vehicle status response"]
ChargeTargetError(values) ==
    [name |-> "ManagedBluelinkyError", message |-> "Charge target values are limited to",
     joined |-> values]
SomethingWentWrong == [name |-> "string", message |-> "Something went wrong!"]
RequestError == [name |-> "RequestError"]

\* A response of the vendor's server: response.statusCode, response.headers and
\* response.body.resMsg.
Response(statusCode, headers, resMsg) ==
    [statusCode |-> statusCode, headers |-> headers, resMsg |-> resMsg]

\* A request: its method, the segments of its path under
\* /api/v2/spa/vehicles/<id> (or /api/v1/..) and its body.
Request(method, path, body) == [method |-> method, path |-> path, body |-> body]

\* A string the operations return.
Text(text) == [t |-> "text", text |-> text]

\* The rate state of a new handle.
InitRates == [max |-> Num(-1), current |-> Num(-1), reset |-> Undefined, updatedAt |-> Undefined]

\* What an operation leaves in last: the operation, its argument, the requests
\* it sent, the responses it received, the responses it gave to updateRates,
\* the error it threw (NoError: it returned) and what it returned.
NoLast ==
    [op |-> "none", arg |-> Undefined, requests |-> <<>>, received |-> <<>>,
     observed |-> <<>>, err |-> NoError, result |-> Undefined]

Done(op, arg, requests, received, observed, err, result) ==
    [op |-> op, arg |-> arg, requests |-> requests,
     received |-> received, observed |-> observed, err |-> err, result |-> result]

NoTracked == [limited |-> Undefined, withReset |-> Undefined]

InitHandle ==
    /\ serverRates = InitRates
    /\ _status = Undefined
    /\ _odometer = Undefined
    /\ _location = Undefined
    /\ _fullStatus = Undefined
    /\ now = 0
    /\ calls = [i \in 1..MaxCalls |-> [pc |-> "idle"]]
    /\ order = <<>>
    /\ last = NoLast
    /\ tracked = NoTracked

\* Time passes.
Tick ==
    /\ now < MaxClock
    /\ now' = now + 1
    /\ UNCHANGED <<ccs2, serverRates, _status, _odometer, _location, _fullStatus,
                   calls, order, last, tracked>>

-----------------------------------------------------------------------------
(* SpecRates: the rate tracker alone, given the headers of one response    *)
(* after another.                                                          *)

Observe(headers) ==
    /\ serverRates' = updateRates(serverRates, headers, now)
    /\ last' = Done("updateRates", Undefined, <<>>, <<Response(200, headers, Undefined)>>,
                    <<Response(200, headers, Undefined)>>, NoError, Undefined)
    /\ tracked' =
         [limited |-> IF Truthy(headers.limit) THEN headers ELSE tracked.limited,
          withReset |-> IF Truthy(headers.limit) /\ Truthy(headers.reset)
                        THEN headers ELSE tracked.withReset]
    /\ UNCHANGED <<ccs2, _status, _odometer, _location, _fullStatus, now, calls, order>>

InitRatesOnly == ccs2 = FALSE /\ InitHandle

NextRates ==
    \/ Tick
    \/ \E headers \in Headers : Observe(headers)

SpecRates == InitRatesOnly /\ [][NextRates]_vars


\* The step is an operation (not the passing of time): an operation runs to
\* its end within one reading of the clock.
OperationStep == now' = now

\* The headers of the response the last operation of SpecRates was given.
LastHeaders == last.received[1].headers

\* C4: when a response carries no x-ratelimit-limit header the rate tracker
\* leaves max, current, reset and updatedAt as they were, whatever the other
\* rate headers are; updatedAt changes only in a step in which a response with
\* the limit header was observed and the state was updated.
C4_NoLimitLeavesRates ==
    [][/\ (OperationStep /\ last'.received[1].headers.limit = Undefined)
            => serverRates' = serverRates
       /\ serverRates'.updatedAt # serverRates.updatedAt
            => /\ OperationStep
               /\ last'.received[1].headers.limit # Undefined
               /\ serverRates'.max = ToNumber(last'.received[1].headers.limit)]_vars

\* C4 witness: a response without the limit header, but with the other two,
\* was observed after the rate state had been set from an earlier response, and
\* the state still holds the earlier values.
C4_Witness ==
    /\ last.op = "updateRates"
    /\ LastHeaders.limit = Undefined
    /\ LastHeaders.remaining = Str(<<0>>)
    /\ LastHeaders.reset = Str(<<3>>)
    /\ serverRates.current = Num(7)
    /\ serverRates.reset = Date(17000)
    /\ serverRates.updatedAt = Date(0)
    /\ now = 1

\* C5: after a response with the limit header is observed, max is the limit
\* header's number, current is the remaining header's number, and, when the
\* reset header is present, reset is the instant 1000 * (the reset header's
\* seconds) milliseconds after the epoch.
C5_RatesFromHeaders ==
    (last.op = "updateRates" /\ LastHeaders.limit # Undefined) =>
        /\ serverRates.max = Num(Dec(LastHeaders.limit.s))
        /\ LastHeaders.remaining # Undefined
             => serverRates.current = Num(Dec(LastHeaders.remaining.s))
        /\ LastHeaders.reset # Undefined
             => serverRates.reset = Date(1000 * Dec(LastHeaders.reset.s))

\* C5 witness: limit 10, remaining 7, reset 17 were observed: max 10, current 7,
\* reset 17000 ms.
C5_Witness ==
    /\ last.op = "updateRates"
    /\ LastHeaders = [limit |-> Str(<<1, 0>>), remaining |-> Str(<<7>>), reset |-> Str(<<1, 7>>)]
    /\ serverRates.max = Num(10)
    /\ serverRates.current = Num(7)
    /\ serverRates.reset = Date(17000)

\* C6 as claimed: max, current and reset all come from the most recent
\* response that carried the limit header; no earlier reset time survives it.
C6_AllFromLastLimited ==
    tracked.limited # Undefined =>
        /\ serverRates.max = ToNumber(tracked.limited.limit)
        /\ serverRates.current = ToNumber(tracked.limited.remaining)
        /\ serverRates.reset =
             IF tracked.limited.reset = Undefined THEN Undefined
             ELSE Date(1000 * Dec(tracked.limited.reset.s))

\* C6 as amended: max and current come from the most recent response that
\* carried the limit header; reset comes from the most recent response that
\* carried both the limit and the reset header (and is unset when there was
\* none): the reset time of an earlier response survives an update by a
\* response without the reset header.
C6_LastWriteExceptReset ==
    /\ tracked.limited # Undefined =>
        /\ serverRates.max = ToNumber(tracked.limited.limit)
        /\ serverRates.current = ToNumber(tracked.limited.remaining)
    /\ tracked.limited = Undefined => serverRates = InitRates
    /\ serverRates.reset =
         IF tracked.withReset = Undefined THEN Undefined
         ELSE Date(1000 * Dec(tracked.withReset.reset.s))

\* C6 witness: the last limit-carrying response had no reset header and an
\* earlier one had: max and current are the later one's, reset the earlier one's.
C6_Witness ==
    /\ tracked.limited = [limit |-> Str(<<2>>), remaining |-> Str(<<0>>), reset |-> Undefined]
    /\ tracked.withReset = [limit |-> Str(<<1, 0>>), remaining |-> Str(<<7>>), reset |-> Str(<<3>>)]
    /\ serverRates.max = Num(2)
    /\ serverRates.current = Num(0)
    /\ serverRates.reset = Date(3000)

-----------------------------------------------------------------------------
(* The status normalizer: parseVehicleStatus, parseCCS2VehicleStatus and   *)
(* the range rule of status().                                             *)

\* An object with no field the model reads.
Object == [t |-> "object"]

\* The range figures of a vendor payload: absent, null, 0 or a distance.
RangeValues == {Undefined, Null, Num(0), Num(80), Num(120)}

\* rangeByFuel of a legacy payload; each field stands for its .value.
RangeByFuels ==
    [t : {"object"}, totalAvailableRange : RangeValues, evModeRange : RangeValues,
     gasModeRange : RangeValues]

\* The elements of evStatus.drvDistance.
DrvDistances == [t : {"object"}, rangeByFuel : {Undefined} \cup RangeByFuels]

\* evStatus of a legacy payload: drvDistance is absent, empty or has one element.
EvStatuses ==
    [t : {"object"},
     drvDistance : {Undefined, [t |-> "array", items |-> <<>>]}
                   \cup {[t |-> "array", items |-> <<d>>] : d \in DrvDistances}]

\* The vendor's tire-pressure codes: absent, 0, the "low" code 1, and 2.
TireCodes == {Undefined, Num(0), Num(1), Num(2)}

\* tirePressureLamp of a legacy payload.
TirePressureLamps ==
    [t : {"object"}, tirePressureLampRL : TireCodes, tirePressureLampFL : TireCodes,
     tirePressureLampFR : TireCodes, tirePressureLampRR : TireCodes,
     tirePressureWarningLampAll : TireCodes]

\* A tirePressureLamp that reports the rear left tire low.
SampleLamp ==
    [t |-> "object", tirePressureLampRL |-> Num(1), tirePressureLampFL |-> Num(0),
     tirePressureLampFR |-> Num(0), tirePressureLampRR |-> Num(0),
     tirePressureWarningLampAll |-> Num(1)]

\* Chassis.Axle of a CCS2 payload; Row2Left stands for
\* Row2.Left.Tire.PressureLow, and so on; Tire stands for Tire.PressureLow.
Axles ==
    [t : {"object"}, Row2Left : TireCodes, Row1Left : TireCodes, Row1Right : TireCodes,
     Row2Right : TireCodes, Tire : TireCodes]

\* An axle that reports the rear left tire low.
SampleAxle ==
    [t |-> "object", Row2Left |-> Num(1), Row1Left |-> Num(0), Row1Right |-> Num(0),
     Row2Right |-> Num(0), Tire |-> Num(1)]

\* The legacy payloads (body.resMsg); dte stands for dte.value.
LegacyBodies ==
    [t : {"object"}, evStatus : {Undefined} \cup EvStatuses, dte : RangeValues,
     tirePressureLamp : {Undefined, SampleLamp}]

\* state.Vehicle of a CCS2 payload; DTETotal stands for
\* Drivetrain.FuelSystem.DTE.Total.
VehicleStates ==
    [t : {"object"},
     Chassis : {Undefined} \cup [t : {"object"}, Axle : {Undefined, SampleAxle}],
     Cabin : {Undefined} \cup [t : {"object"}, Door : {Undefined, Object}],
     DTETotal : RangeValues]

\* The CCS2 payloads (body.resMsg).
CCS2Bodies ==
    [t : {"object"},
     state : {Undefined} \cup [t : {"object"}, Vehicle : {Undefined} \cup VehicleStates]]

\* body.evStatus?.drvDistance[0]?.rangeByFuel: the optional chain ends at an
\* absent evStatus; the index into an absent drvDistance throws.
rangeByFuel(body) ==
    IF Nullish(body.evStatus) THEN Return(Undefined)
    ELSE IF Nullish(body.evStatus.drvDistance) THEN Throw(TypeError)
    ELSE IF body.evStatus.drvDistance.items = <<>> THEN Return(Undefined)
    ELSE Return(body.evStatus.drvDistance.items[1].rangeByFuel)

\* x?.field
Field(x, field) == IF Nullish(x) THEN Undefined ELSE x[field]

\* !!x
NotNot(x) == Bool(Truthy(x))

\* x === 1
StrictEqualsOne(x) == Bool(x = Num(1))

\* tirePressureWarningLamp of the legacy mapping.
legacyTireLamp(body) ==
    LET lamp == body.tirePressureLamp IN
    [rearLeft |-> NotNot(Field(lamp, "tirePressureLampRL")),
     frontLeft |-> NotNot(Field(lamp, "tirePressureLampFL")),
     frontRight |-> NotNot(Field(lamp, "tirePressureLampFR")),
     rearRight |-> NotNot(Field(lamp, "tirePressureLampRR")),
     all |-> NotNot(Field(lamp, "tirePressureWarningLampAll"))]

\* tirePressureWarningLamp of the CCS2 mapping.
ccs2TireLamp(axle) ==
    [rearLeft |-> StrictEqualsOne(axle.Row2Left),
     frontLeft |-> StrictEqualsOne(axle.Row1Left),
     frontRight |-> StrictEqualsOne(axle.Row1Right),
     rearRight |-> StrictEqualsOne(axle.Row2Right),
     all |-> StrictEqualsOne(axle.Tire)]

parseVehicleStatus(body) ==
    LET byFuel == rangeByFuel(body) IN
    IF byFuel.err # NoError THEN byFuel
    ELSE Return([t |-> "object",
                 chassis |-> [tirePressureWarningLamp |-> legacyTireLamp(body)],
                 engine |-> [rangeGas |-> Coalesce(Field(byFuel.value, "gasModeRange"), body.dte),
                             range |-> Field(byFuel.value, "totalAvailableRange"),
                             rangeEV |-> Field(byFuel.value, "evModeRange")]])

parseCCS2VehicleStatusNoRange(body) ==
    LET vehicleState == Field(body.state, "Vehicle") IN
    IF Nullish(vehicleState) THEN Throw(TypeError)
    ELSE LET axle == Field(vehicleState.Chassis, "Axle")
             door == Field(vehicleState.Cabin, "Door")
         IN  IF ~Truthy(vehicleState) \/ ~Truthy(axle) \/ ~Truthy(door)
             THEN Throw(MissingVehicleState)
             ELSE Return([t |-> "object",
                          chassis |-> [tirePressureWarningLamp |-> ccs2TireLamp(axle)],
                          engine |-> [range |-> Undefined,
                                      rangeEV |-> vehicleState.DTETotal,
                                      rangeGas |-> vehicleState.DTETotal]])
parseCCS2VehicleStatus(body) ==
    LET vehicleState == Field(body.state, "Vehicle") IN
    IF Nullish(vehicleState) THEN Throw(TypeError)
    ELSE LET axle == Field(vehicleState.Chassis, "Axle")
             door == Field(vehicleState.Cabin, "Door")
         IN  IF ~Truthy(vehicleState) \/ ~Truthy(axle) \/ ~Truthy(door)
             THEN Throw(MissingVehicleState)
             ELSE Return([t |-> "object",
                          chassis |-> [tirePressureWarningLamp |-> ccs2TireLamp(axle)],
                          engine |-> [range |-> vehicleState.DTETotal,
                                      rangeEV |-> vehicleState.DTETotal,
                                      rangeGas |-> vehicleState.DTETotal]])

\* The range rule of status(): engine as left by
\* if (!engine.range) { if (engine.rangeEV || engine.rangeGas) { range = ... } }
deriveRangeAlways(engine) ==
    IF Truthy(engine.rangeEV) \/ Truthy(engine.rangeGas)
    THEN [engine EXCEPT !.range = Plus(Coalesce(engine.rangeEV, Num(0)),
                                       Coalesce(engine.rangeGas, Num(0)))]
    ELSE engine
deriveRange(engine) ==
    IF ~Truthy(engine.range) /\ (Truthy(engine.rangeEV) \/ Truthy(engine.rangeGas))
    THEN [engine EXCEPT !.range = Plus(Coalesce(engine.rangeEV, Num(0)),
                                       Coalesce(engine.rangeGas, Num(0)))]
    ELSE engine

\* status() from the response to the parsed status with its range rule
\* applied: what it throws, or the parsed status.
normalized(isCCS2, response) ==
    LET body == response.resMsg IN
    IF Nullish(body) THEN Throw(MissingVehicleStatus)
    ELSE LET parsedStatus == IF isCCS2 THEN parseCCS2VehicleStatus(body)
                             ELSE parseVehicleStatus(body)
         IN  IF parsedStatus.err # NoError THEN parsedStatus
             ELSE Return([parsedStatus.value EXCEPT !.engine = deriveRange(@)])

\* this._status = statusConfig.parsed ? parsedStatus : body: the value of
\* this._status after the assignment (previous: its value before).
writeStatusOnce(previous, statusConfig, parsedStatus, body) ==
    IF previous # Undefined THEN previous
    ELSE IF statusConfig.parsed THEN parsedStatus ELSE body
writeStatus(previous, statusConfig, parsedStatus, body) ==
    IF statusConfig.parsed THEN parsedStatus ELSE body

\* status() from the response on: what it throws, or this._status as it
\* assigns and returns it.
statusOf(isCCS2, statusConfig, response, previous) ==
    LET parsedStatus == normalized(isCCS2, response) IN
    IF parsedStatus.err # NoError THEN parsedStatus
    ELSE Return(writeStatus(previous, statusConfig, parsedStatus.value, response.resMsg))

\* The path status() requests.
statusUrl(isCCS2, statusConfig) ==
    (IF isCCS2 THEN <<"ccs2", "carstatus">> ELSE <<"status">>)
        \o (IF statusConfig.refresh THEN <<>> ELSE <<"latest">>)

\* A rejected request: the promise of http.get or http.post rejects.
Rejected == [t |-> "rejected"]

\* status(input), with the response its request got.
status(statusConfig, response) ==
    LET request == Request("GET", statusUrl(ccs2, statusConfig), Undefined) IN
    IF response = Rejected
    THEN /\ last' = Done("status", statusConfig, <<request>>, <<>>, <<>>, RequestError, Undefined)
         /\ UNCHANGED <<ccs2, serverRates, _status, _odometer, _location, _fullStatus,
                        now, calls, order, tracked>>
    ELSE LET out == statusOf(ccs2, statusConfig, response, _status) IN
         /\ serverRates' = updateRates(serverRates, response.headers, now)
         /\ _status' = IF out.err = NoError THEN out.value ELSE _status
         /\ last' = Done("status", statusConfig, <<request>>, <<response>>, <<response>>,
                         out.err, out.value)
         /\ UNCHANGED <<ccs2, _odometer, _location, _fullStatus, now, calls, order, tracked>>

\* The options of status() and fullStatus(), merged with the defaults.
StatusConfigs == [refresh : BOOLEAN, parsed : BOOLEAN]

\* The headers of a response that reports no quota, and of one that does.
NoHeaders == [limit |-> Undefined, remaining |-> Undefined, reset |-> Undefined]
SomeHeaders == [limit |-> Str(<<1, 0>>), remaining |-> Str(<<7>>), reset |-> Str(<<3>>)]

\* The payloads under the handle's protocol.
Bodies(isCCS2) == IF isCCS2 THEN CCS2Bodies ELSE LegacyBodies

-----------------------------------------------------------------------------
(* SpecStatus: one status() call of a new handle, over all the payloads.   *)

InitStatus == ccs2 \in BOOLEAN /\ InitHandle

NextStatus ==
    /\ last.op = "none"
    /\ \E statusConfig \in StatusConfigs :
       \E response \in {Rejected} \cup
               {Response(200, NoHeaders, b) : b \in {Undefined} \cup Bodies(ccs2)} :
           status(statusConfig, response)

SpecStatus == InitStatus /\ [][NextStatus]_vars

\* The engine figures as the handle's mapping read them from the payload of
\* the last operation's first response, before the range rule.
MappedEngine ==
    (IF ccs2 THEN parseCCS2VehicleStatus(last.received[1].resMsg)
     ELSE parseVehicleStatus(last.received[1].resMsg)).value.engine

\* A range figure as a summand: an absent one counts 0.
Summand(x) == IF x.t = "number" THEN x.v ELSE 0

\* C1: in every parsed status() result, under either mapping, engine.range is
\* the mapped vendor range when that is truthy; otherwise, when rangeEV or
\* rangeGas is truthy, it is rangeEV + rangeGas with an absent one counted as 0;
\* otherwise it is left as mapped.  rangeEV and rangeGas are left as mapped.
C1_RangeDerivation ==
    (last.op = "status" /\ last.err = NoError /\ last.arg.parsed) =>
        LET engine == last.result.engine IN
        /\ engine.rangeEV = MappedEngine.rangeEV
        /\ engine.rangeGas = MappedEngine.rangeGas
        /\ engine.range =
             IF Truthy(MappedEngine.range) THEN MappedEngine.range
             ELSE IF Truthy(MappedEngine.rangeEV) \/ Truthy(MappedEngine.rangeGas)
                  THEN Num(Summand(MappedEngine.rangeEV) + Summand(MappedEngine.rangeGas))
                  ELSE MappedEngine.range

\* C1 witness: a legacy payload without a total range, with rangeEV 120 and
\* rangeGas 80, was parsed: range is 200.
C1_Witness ==
    /\ ~ccs2
    /\ last.op = "status" /\ last.err = NoError /\ last.arg.parsed
    /\ MappedEngine = [range |-> Undefined, rangeEV |-> Num(120), rangeGas |-> Num(80)]
    /\ last.result.engine.range = Num(200)
    /\ _status = last.result

\* C14: for every CCS2 payload that parses, the parsed status() result has
\* engine.range, engine.rangeEV and engine.rangeGas all equal to the vendor's
\* DTE.Total: the range rule of status() never changes range for a CCS2
\* handle (range is never 2 x DTE.Total).
C14_CCS2RangeIsDTETotal ==
    (ccs2 /\ last.op = "status" /\ last.err = NoError /\ last.arg.parsed) =>
        LET total == last.received[1].resMsg.state.Vehicle.DTETotal
            engine == last.result.engine
        IN  /\ engine.range = total
            /\ engine.rangeEV = total
            /\ engine.rangeGas = total

\* A CCS2 handle returned a parsed status whose three ranges are the payload's
\* DTE.Total of 80.
C14_Witness ==
    /\ ccs2
    /\ last.op = "status" /\ last.err = NoError /\ last.arg.parsed
    /\ last.received[1].resMsg.state.Vehicle.DTETotal = Num(80)
    /\ last.result.engine = [range |-> Num(80), rangeEV |-> Num(80), rangeGas |-> Num(80)]
    /\ _status = last.result

-----------------------------------------------------------------------------
(* SpecTires: one status() call of a new handle, over the payloads with    *)
(* every combination of tire-pressure codes.                               *)

\* The payloads under the handle's protocol, with every tire-pressure code.
TireBodies(isCCS2) ==
    IF isCCS2
    THEN [t : {"object"},
          state : [t : {"object"},
                   Vehicle : [t : {"object"},
                              Chassis : [t : {"object"}, Axle : Axles],
                              Cabin : [t : {"object"}, Door : {Object}],
                              DTETotal : {Num(120)}]]]
    ELSE [t : {"object"}, evStatus : {Undefined}, dte : {Num(80)},
          tirePressureLamp : {Undefined} \cup TirePressureLamps]

NextTires ==
    /\ last.op = "none"
    /\ \E statusConfig \in StatusConfigs : \E body \in TireBodies(ccs2) :
           status(statusConfig, Response(200, NoHeaders, body))

SpecTires == InitStatus /\ [][NextTires]_vars

\* The vendor's tire-pressure codes in the payload of the last operation's
\* first response, by the flag that is mapped from each.
VendorTireCodes ==
    LET body == last.received[1].resMsg IN
    IF ccs2
    THEN LET axle == body.state.Vehicle.Chassis.Axle IN
         [rearLeft |-> axle.Row2Left, frontLeft |-> axle.Row1Left,
          frontRight |-> axle.Row1Right, rearRight |-> axle.Row2Right, all |-> axle.Tire]
    ELSE LET lamp == body.tirePressureLamp IN
         [rearLeft |-> Field(lamp, "tirePressureLampRL"),
          frontLeft |-> Field(lamp, "tirePressureLampFL"),
          frontRight |-> Field(lamp, "tirePressureLampFR"),
          rearRight |-> Field(lamp, "tirePressureLampRR"),
          all |-> Field(lamp, "tirePressureWarningLampAll")]

TireFlags == {"rearLeft", "frontLeft", "frontRight", "rearRight", "all"}

\* Every tire-pressure flag of the last parsed status is true exactly when its
\* vendor code is 1.
FlagsAreSentinelTests ==
    \A flag \in TireFlags :
        last.result.chassis.tirePressureWarningLamp[flag].b
            <=> (VendorTireCodes[flag] = Num(1))

\* C11: under either mapping, every tire-pressure-warning flag of a parsed
\* status() result (rearLeft, frontLeft, frontRight, rearRight, all) is true
\* exactly when its vendor code equals 1, and false for 0, 2 and an absent code.
C11_TireFlagsBySentinel ==
    (last.op = "status" /\ last.err = NoError /\ last.arg.parsed) => FlagsAreSentinelTests

\* C11, for the CCS2 mapping alone.
C11_CCS2TireFlagsBySentinel ==
    (ccs2 /\ last.op = "status" /\ last.err = NoError /\ last.arg.parsed)
        => FlagsAreSentinelTests

\* The last operation is a status() of a legacy handle that received a
\* payload (resMsg is not null).
LegacyStatusWithPayload ==
    /\ ~ccs2 /\ last.op = "status"
    /\ last.received # <<>>
    /\ ~Nullish(last.received[1].resMsg)

\* The payload has no first element of evStatus.drvDistance to read from.
NoDrvDistance(body) ==
    \/ Nullish(body.evStatus)
    \/ Nullish(body.evStatus.drvDistance)
    \/ body.evStatus.drvDistance.items = <<>>

\* The last status() returned a status, and in the parsed one the fields read
\* from an absent source are undefined or their default.
ReturnedWithDefaults ==
    LET body == last.received[1].resMsg IN
    /\ last.err = NoError
    /\ last.arg.parsed =>
        /\ NoDrvDistance(body) =>
            /\ last.result.engine.rangeEV = Undefined
            /\ last.result.engine.rangeGas = body.dte
        /\ Nullish(body.tirePressureLamp) =>
            \A flag \in TireFlags :
                ~last.result.chassis.tirePressureWarningLamp[flag].b

\* C12: status() of a legacy handle never fails on a non-null payload,
\* whichever of its fields are absent (evStatus present without drvDistance
\* and an empty drvDistance included): it returns a status in which each field
\* read from an absent source is undefined or its falsy default.
C12_LegacyNeverFails == LegacyStatusWithPayload => ReturnedWithDefaults

\* C12, for the payloads other than those whose evStatus has no drvDistance.
C12_LegacyFailsOnlyWithoutDrvDistance ==
    LET body == last.received[1].resMsg IN
    LegacyStatusWithPayload =>
        IF ~Nullish(body.evStatus) /\ Nullish(body.evStatus.drvDistance)
        THEN last.err = TypeError
        ELSE ReturnedWithDefaults

-----------------------------------------------------------------------------
(* The operations of the handle, each as one action: the whole call, with  *)
(* the responses its requests got.  The http service of the controller is  *)
(* taken to be available; a request can be rejected.                       *)

\* The variables an operation that writes no cache leaves alone.
NoCacheWritten ==
    UNCHANGED <<ccs2, _status, _odometer, _location, _fullStatus, now, calls, order, tracked>>

\* An operation of one request: the response goes to updateRates, and out is
\* what the operation then throws or returns.
OneRequest(op, arg, request, response, out) ==
    /\ IF response = Rejected
       THEN /\ last' = Done(op, arg, <<request>>, <<>>, <<>>, RequestError, Undefined)
            /\ UNCHANGED serverRates
       ELSE /\ serverRates' = updateRates(serverRates, response.headers, now)
            /\ last' = Done(op, arg, <<request>>, <<response>>, <<response>>,
                            out.err, out.value)
    /\ NoCacheWritten

\* response.body, as far as the model holds it.
BodyOf(response) == [t |-> "object", resMsg |-> response.resMsg]

start(config, response) ==
    OneRequest("start", config, Request("POST", <<"control", "engine">>, [action |-> "start"]),
               response, Return(BodyOf(response)))

stop(response) ==
    OneRequest("stop", Undefined, Request("POST", <<"control", "engine">>, [action |-> "stop"]),
               response, Return(BodyOf(response)))

lock(response) ==
    OneRequest("lock", Undefined, Request("POST", <<"control", "door">>, [action |-> "close"]),
               response,
               IF response.statusCode = 200 THEN Return(Text("Lock successful"))
               ELSE Return(Text("Something went wrong!")))

unlock(response) ==
    OneRequest("unlock", Undefined, Request("POST", <<"control", "door">>, [action |-> "open"]),
               response,
               IF response.statusCode = 200 THEN Return(Text("Unlock successful"))
               ELSE Return(Text("Something went wrong!")))

setWindows(config, response) ==
    OneRequest("setWindows", config, Request("POST", <<"control", "windowcurtain">>, config),
               response, Return(BodyOf(response)))

startCharge(response) ==
    OneRequest("startCharge", Undefined,
               Request("POST", <<"control", "charge">>, [action |-> "start"]), response,
               IF response.statusCode = 200 THEN Return(Text("Start charge successful"))
               ELSE Throw(SomethingWentWrong))

stopCharge(response) ==
    OneRequest("stopCharge", Undefined,
               Request("POST", <<"control", "charge">>, [action |-> "stop"]), response,
               IF response.statusCode = 200 THEN Return(Text("Stop charge successful"))
               ELSE Throw(SomethingWentWrong))

setNavigation(poiInformations, response) ==
    OneRequest("setNavigation", poiInformations,
               Request("POST", <<"location", "routes">>, [poiInfoList |-> poiInformations]),
               response, Return(Undefined))

\* x.toString() of a natural number, as its digits.
RECURSIVE Digits(_)
Digits(n) == IF n < 10 THEN <<n>> ELSE Digits(n \div 10) \o <<n % 10>>

\* digits.padStart(2, '0')
PadStart2(digits) == IF Len(digits) < 2 THEN <<0>> \o digits ELSE digits

toMonthDate(month) == Digits(month.year) \o PadStart2(Digits(month.month))

toDayDate(date) ==
    IF Truthy(date.day) THEN toMonthDate(date) \o PadStart2(Digits(date.day.v))
    ELSE toMonthDate(date)

\* array.map(f), on the model's arrays.
Array(items) == [t |-> "array", items |-> items]

EmptyArray == [t |-> "array", items |-> <<>>]

\* Array.isArray(x)
IsArray(x) == x.t = "array"

\* odometer() from the response on.
odometerOf(response) ==
    IF Nullish(response.resMsg) THEN Throw(TypeError)
    ELSE Return([t |-> "object", unit |-> 0, value |-> response.resMsg.odometer])

odometer(response) ==
    LET request == Request("POST", <<"monthlyreport">>, Undefined) IN
    IF response = Rejected
    THEN /\ last' = Done("odometer", Undefined, <<request>>, <<>>, <<>>, RequestError, Undefined)
         /\ UNCHANGED <<serverRates, _odometer>>
         /\ UNCHANGED <<ccs2, _status, _location, _fullStatus, now, calls, order, tracked>>
    ELSE LET out == odometerOf(response) IN
         /\ serverRates' = updateRates(serverRates, response.headers, now)
         /\ _odometer' = IF out.err = NoError THEN out.value ELSE _odometer
         /\ last' = Done("odometer", Undefined, <<request>>, <<response>>, <<response>>,
                         out.err, out.value)
         /\ UNCHANGED <<ccs2, _status, _location, _fullStatus, now, calls, order, tracked>>

\* location() from the response on: it reads every field through ?. .
locationOf(response) ==
    LET data == Field(response.resMsg, "gpsDetail") IN
    [t |-> "object",
     latitude |-> Field(Field(data, "coord"), "lat"),
     longitude |-> Field(Field(data, "coord"), "lon"),
     altitude |-> Field(Field(data, "coord"), "alt"),
     speed |-> [unit |-> Field(Field(data, "speed"), "unit"),
                value |-> Field(Field(data, "speed"), "value")],
     heading |-> Field(data, "head")]

location(response) ==
    LET request == Request("GET", <<"location", "park">>, Undefined) IN
    IF response = Rejected
    THEN /\ last' = Done("location", Undefined, <<request>>, <<>>, <<>>, RequestError, Undefined)
         /\ UNCHANGED <<serverRates, _location>>
         /\ UNCHANGED <<ccs2, _status, _odometer, _fullStatus, now, calls, order, tracked>>
    ELSE /\ serverRates' = updateRates(serverRates, response.headers, now)
         /\ _location' = locationOf(response)
         /\ last' = Done("location", Undefined, <<request>>, <<response>>, <<response>>,
                         NoError, locationOf(response))
         /\ UNCHANGED <<ccs2, _status, _odometer, _fullStatus, now, calls, order, tracked>>

\* fullStatus(input), with the responses of its status request, of its
\* location request and of the request of the odometer() it calls.  odometer()
\* returns the object it cached, so fullStatus never returns null.
fullStatus(statusConfig, statusResponse, locationResponse, odometerResponse) ==
    LET statusRequest ==
            Request("GET", IF statusConfig.refresh THEN <<"status", "latest">>
                           ELSE <<"status">>, Undefined)
        locationRequest == Request("GET", <<"location", "park">>, Undefined)
        odometerRequest == Request("POST", <<"monthlyreport">>, Undefined)
        rates1 == updateRates(serverRates, statusResponse.headers, now)
        rates2 == updateRates(rates1, locationResponse.headers, now)
        rates3 == updateRates(rates2, odometerResponse.headers, now)
        odo == odometerOf(odometerResponse)
        all == <<statusResponse, locationResponse, odometerResponse>>
        requests == <<statusRequest, locationRequest, odometerRequest>>
        full == [t |-> "object",
                 vehicleLocation |-> locationResponse.resMsg.gpsDetail,
                 odometer |-> odo.value,
                 vehicleStatus |-> statusResponse.resMsg]
    IN
    /\ IF statusResponse = Rejected
       THEN /\ last' = Done("fullStatus", statusConfig, <<statusRequest>>, <<>>, <<>>,
                            RequestError, Undefined)
            /\ UNCHANGED <<serverRates, _odometer, _fullStatus>>
       ELSE IF locationResponse = Rejected
       THEN /\ serverRates' = rates1
            /\ last' = Done("fullStatus", statusConfig, SubSeq(requests, 1, 2),
                            <<statusResponse>>, <<statusResponse>>, RequestError, Undefined)
            /\ UNCHANGED <<_odometer, _fullStatus>>
       ELSE IF odometerResponse = Rejected
       THEN /\ serverRates' = rates2
            /\ last' = Done("fullStatus", statusConfig, requests, SubSeq(all, 1, 2),
                            SubSeq(all, 1, 2), RequestError, Undefined)
            /\ UNCHANGED <<_odometer, _fullStatus>>
       ELSE IF odo.err # NoError
       THEN /\ serverRates' = rates3
            /\ last' = Done("fullStatus", statusConfig, requests, all, all, odo.err, Undefined)
            /\ UNCHANGED <<_odometer, _fullStatus>>
       ELSE IF Nullish(locationResponse.resMsg)
       THEN /\ serverRates' = rates3
            /\ _odometer' = odo.value
            /\ last' = Done("fullStatus", statusConfig, requests, all, all, TypeError, Undefined)
            /\ UNCHANGED _fullStatus
       ELSE /\ serverRates' = rates3
            /\ _odometer' = odo.value
            /\ _fullStatus' = full
            /\ last' = Done("fullStatus", statusConfig, requests, all, all, NoError, full)
    /\ UNCHANGED <<ccs2, _status, _location, now, calls, order, tracked>>

\* x == '1'
LooseEqualsOne(x) ==
    \/ x.t = "number" /\ x.v = 1
    \/ x.t = "string" /\ x.s # <<>> /\ Dec(x.s) = 1
    \/ x.t = "boolean" /\ x.b

\* monthlyReport(month) from the response on.
monthlyReportOf(response) ==
    LET rawData == Field(response.resMsg, "monthlyReport") IN
    IF ~Truthy(rawData) THEN Return(Undefined)
    ELSE Return(
        [t |-> "object",
         start |-> Field(rawData.ifo, "mvrMonthStart"),
         end |-> Field(rawData.ifo, "mvrMonthEnd"),
         breakdown |-> rawData.breakdown,
         driving |->
            IF Truthy(rawData.driving)
            THEN [t |-> "object",
                  distance |-> rawData.driving.runDistance,
                  startCount |-> rawData.driving.engineStartCount,
                  durations |-> [idle |-> rawData.driving.engineIdleTime,
                                 drive |-> rawData.driving.engineOnTime]]
            ELSE Undefined,
         vehicleStatus |->
            IF Truthy(rawData.vehicleStatus)
            THEN [t |-> "object",
                  tpms |-> IF Truthy(rawData.vehicleStatus.tpmsSupport) THEN True
                           ELSE Undefined,
                  tirePressure |->
                     [all |-> LooseEqualsOne(Field(rawData.vehicleStatus.tirePressure,
                                                   "tirePressureLampAll"))]]
            ELSE Undefined])

monthlyReport(month, response) ==
    OneRequest("monthlyReport", month,
               Request("POST", <<"monthlyreport">>, [setRptMonth |-> toMonthDate(month)]),
               response, monthlyReportOf(response))

\* One line of drivingInfo or drivingInfoDetail, as driveHistory maps it.
consumptionOf(line) ==
    [total |-> line.totalPwrCsp, engine |-> line.motorPwrCsp, climate |-> line.climatePwrCsp,
     devices |-> line.eDPwrCsp, battery |-> line.batteryMgPwrCsp]

\* parseDate of ../util, which is not among the sources: the date a string denotes.
parseDate(string) == [t |-> "Date", parsed |-> string]

\* addMinutes of ../util, which is not among the sources.
addMinutes(date, minutes) == [t |-> "Date", parsed |-> date.parsed, plusMinutes |-> minutes]

cumulatedOf(line) ==
    [period |-> line.drivingPeriod, consumption |-> consumptionOf(line),
     regen |-> line.regenPwr, distance |-> line.calculativeOdo]

historyOf(line) ==
    [period |-> line.drivingPeriod, rawDate |-> line.drivingDate,
     date |-> IF Truthy(line.drivingDate) THEN parseDate(line.drivingDate) ELSE Undefined,
     consumption |-> consumptionOf(line),
     regen |-> line.regenPwr, distance |-> line.calculativeOdo]

\* driveHistory(period) from the response on.
driveHistoryOf(response) ==
    IF Nullish(response.resMsg) THEN Throw(TypeError)
    ELSE Return(
        [t |-> "object",
         cumulated |-> IF Nullish(response.resMsg.drivingInfo) THEN Undefined
                       ELSE Array([k \in DOMAIN response.resMsg.drivingInfo.items |-> cumulatedOf(response.resMsg.drivingInfo.items[k])]),
         history |-> IF Nullish(response.resMsg.drivingInfoDetail) THEN Undefined
                     ELSE Array([k \in DOMAIN response.resMsg.drivingInfoDetail.items |-> historyOf(response.resMsg.drivingInfoDetail.items[k])])])

\* driveHistory(period): its response is not given to updateRates.
driveHistory(period, response) ==
    LET request == Request("POST", <<"drvhistory">>, [periodTarget |-> period]) IN
    /\ IF response = Rejected
       THEN last' = Done("driveHistory", period, <<request>>, <<>>, <<>>, RequestError, Undefined)
       ELSE last' = Done("driveHistory", period, <<request>>, <<response>>, <<>>,
                         driveHistoryOf(response).err, driveHistoryOf(response).value)
    /\ UNCHANGED serverRates
    /\ NoCacheWritten

\* One day of tripDayList, as the monthly tripInfo maps it.
monthDayOf(day) ==
    [dayRaw |-> day.tripDayInMonth,
     date |-> IF Truthy(day.tripDayInMonth) THEN parseDate(day.tripDayInMonth) ELSE Undefined,
     tripsCount |-> day.tripCntDay]

\* One trip of the tripList of a day, as the daily tripInfo maps it.
tripOf(day, trip) ==
    LET startDate == parseDate(<<day.tripDay, trip.tripTime>>) IN
    [timeRaw |-> trip.tripTime,
     start |-> startDate,
     end |-> addMinutes(startDate, trip.tripDrvTime),
     durations |-> [drive |-> trip.tripDrvTime, idle |-> trip.tripIdleTime],
     speed |-> [avg |-> trip.tripAvgSpeed, max |-> trip.tripMaxSpeed],
     distance |-> trip.tripDist]

\* One day of dayTripList, as the daily tripInfo maps it.
dayTripOf(day) ==
    LET TripOfDay(trip) == tripOf(day, trip) IN
    [dayRaw |-> day.tripDay,
     tripsCount |-> day.dayTripCnt,
     distance |-> day.tripDist,
     durations |-> [drive |-> day.tripDrvTime, idle |-> day.tripIdleTime],
     speed |-> [avg |-> day.tripAvgSpeed, max |-> day.tripMaxSpeed],
     trips |-> IF IsArray(day.tripList) THEN Array([k \in DOMAIN day.tripList.items |-> TripOfDay(day.tripList.items[k])]) ELSE EmptyArray]

\* const perDay = Boolean(date.day)
perDay(date) == Truthy(date.day)

\* The body of the request of tripInfo(date).
tripInfoBody(date) ==
    [setTripLatest |-> 10,
     setTripMonth |-> IF ~perDay(date) THEN Str(toMonthDate(date)) ELSE Undefined,
     setTripDay |-> IF perDay(date) THEN Str(toDayDate(date)) ELSE Undefined,
     tripPeriodType |-> IF perDay(date) THEN 1 ELSE 0]

\* tripInfo(date) from the response on.
tripInfoOf(date, response) ==
    IF ~perDay(date)
    THEN LET rawData == response.resMsg IN
         Return([t |-> "object",
                 days |-> IF IsArray(Field(rawData, "tripDayList"))
                          THEN Array([k \in DOMAIN rawData.tripDayList.items |-> monthDayOf(rawData.tripDayList.items[k])]) ELSE EmptyArray,
                 durations |-> [drive |-> Field(rawData, "tripDrvTime"),
                                idle |-> Field(rawData, "tripIdleTime")],
                 distance |-> Field(rawData, "tripDist"),
                 speed |-> [avg |-> Field(rawData, "tripAvgSpeed"),
                            max |-> Field(rawData, "tripMaxSpeed")]])
    ELSE IF Nullish(response.resMsg) THEN Throw(TypeError)
    ELSE LET rawData == response.resMsg.dayTripList IN
         IF Truthy(rawData) /\ IsArray(rawData) THEN Return(Array([k \in DOMAIN rawData.items |-> dayTripOf(rawData.items[k])]))
         ELSE Return(Undefined)

tripInfo(date, response) ==
    OneRequest("tripInfo", date, Request("POST", <<"tripinfo">>, tripInfoBody(date)),
               response, tripInfoOf(date, response))

\* One entry of targetSOClist, as getChargeTargets maps it.
targetOf(rawSOC) ==
    [distance |-> Field(Field(rawSOC.drvDistance, "distanceType"), "distanceValue"),
     targetLevel |-> rawSOC.targetSOClevel,
     type |-> rawSOC.plugType]

\* getChargeTargets() from the response on.
getChargeTargetsOf(response) ==
    LET rawData == Field(response.resMsg, "targetSOClist") IN
    IF Truthy(rawData) /\ IsArray(rawData) THEN Return(Array([k \in DOMAIN rawData.items |-> targetOf(rawData.items[k])]))
    ELSE Return(Undefined)

getChargeTargets(response) ==
    OneRequest("getChargeTargets", Undefined, Request("GET", <<"charge", "target">>, Undefined),
               response, getChargeTargetsOf(response))

\* POSSIBLE_CHARGE_LIMIT_VALUES of ../constants, which is not among the sources:
\* the allowed set the specification gives.
POSSIBLE_CHARGE_LIMIT_VALUES == <<50, 60, 70, 80, 90, 100>>

\* values.includes(x)
Includes(values, x) == \E i \in 1..Len(values) : values[i] = x

\* The test of setChargeTargets: both targets are allowed values.
chargeTargetsEitherAllowed(limits) ==
    Includes(POSSIBLE_CHARGE_LIMIT_VALUES, limits.fast)
        \/ Includes(POSSIBLE_CHARGE_LIMIT_VALUES, limits.slow)
chargeTargetsAllowed(limits) ==
    ~(\/ ~Includes(POSSIBLE_CHARGE_LIMIT_VALUES, limits.fast)
      \/ ~Includes(POSSIBLE_CHARGE_LIMIT_VALUES, limits.slow))

\* setChargeTargets(limits): the test comes before the request.
setChargeTargets(limits, response) ==
    IF ~chargeTargetsAllowed(limits)
    THEN /\ last' = Done("setChargeTargets", limits, <<>>, <<>>, <<>>,
                         ChargeTargetError(POSSIBLE_CHARGE_LIMIT_VALUES), Undefined)
         /\ UNCHANGED serverRates
         /\ NoCacheWritten
    ELSE OneRequest("setChargeTargets", limits,
                    Request("POST", <<"charge", "target">>,
                            [targetSOClist |->
                                <<[plugType |-> "FAST", targetSOClevel |-> limits.fast],
                                  [plugType |-> "SLOW", targetSOClevel |-> limits.slow]>>]),
                    response, Return(Undefined))

-----------------------------------------------------------------------------
(* Spec: a handle and its operations, one call after another, over sample  *)
(* arguments and responses.                                                *)

SpecHeaders == {NoHeaders, SomeHeaders}

\* The responses with the given payloads, and the ones that also report the
\* quota; a request can also be rejected.
Responses(resMsgs, quotaMsgs) ==
    {Rejected} \cup {Response(200, NoHeaders, m) : m \in resMsgs}
               \cup {Response(200, SomeHeaders, m) : m \in quotaMsgs}

\* The responses to a command: 200, or another success code.
CommandResponses ==
    {Rejected, Response(200, SomeHeaders, Undefined), Response(204, NoHeaders, Undefined)}

\* A legacy payload with rangeEV 120 and rangeGas 80 and no total range, and one
\* whose evStatus has no drvDistance.
SampleLegacyBody ==
    [t |-> "object",
     evStatus |->
        [t |-> "object",
         drvDistance |->
            [t |-> "array",
             items |-> <<[t |-> "object",
                          rangeByFuel |-> [t |-> "object", totalAvailableRange |-> Undefined,
                                           evModeRange |-> Num(120),
                                           gasModeRange |-> Num(80)]]>>]],
     dte |-> Undefined, tirePressureLamp |-> SampleLamp]
BrokenLegacyBody ==
    [t |-> "object", evStatus |-> [t |-> "object", drvDistance |-> Undefined], dte |-> Num(80),
     tirePressureLamp |-> Undefined]

\* A CCS2 payload with all its parts, and the ones without state.Vehicle,
\* without Chassis.Axle and without Cabin.Door.
SampleVehicleState ==
    [t |-> "object", Chassis |-> [t |-> "object", Axle |-> SampleAxle],
     Cabin |-> [t |-> "object", Door |-> Object], DTETotal |-> Num(120)]
CCS2Body(vehicleState) == [t |-> "object", state |-> [t |-> "object", Vehicle |-> vehicleState]]
SampleCCS2Body == CCS2Body(SampleVehicleState)
NoVehicleBody == CCS2Body(Undefined)
NoAxleBody == CCS2Body([SampleVehicleState EXCEPT !.Chassis.Axle = Undefined])
NoDoorBody == CCS2Body([SampleVehicleState EXCEPT !.Cabin.Door = Undefined])

SampleBodies(isCCS2) ==
    IF isCCS2 THEN {SampleCCS2Body, NoVehicleBody, NoAxleBody, NoDoorBody}
    ELSE {SampleLegacyBody, BrokenLegacyBody}

SampleBody(isCCS2) == IF isCCS2 THEN SampleCCS2Body ELSE SampleLegacyBody

SampleGps ==
    [t |-> "object",
     gpsDetail |-> [t |-> "object",
                    coord |-> [t |-> "object", lat |-> Num(-33), lon |-> Num(151),
                               alt |-> Num(20)],
                    speed |-> [t |-> "object", unit |-> Num(1), value |-> Num(0)],
                    head |-> Num(90)]]

OdometerMsg(km) == [t |-> "object", odometer |-> Num(km)]

\* The payloads of a monthly report: none, a bare one and a full one.
ReportMsg(report) == [t |-> "object", monthlyReport |-> report]
BareReport ==
    [t |-> "object", ifo |-> Undefined, breakdown |-> Undefined, driving |-> Undefined,
     vehicleStatus |-> Undefined]
FullReport ==
    [t |-> "object",
     ifo |-> [t |-> "object", mvrMonthStart |-> Str(<<2, 0, 2, 4, 0, 5, 0, 1>>),
              mvrMonthEnd |-> Str(<<2, 0, 2, 4, 0, 5, 3, 1>>)],
     breakdown |-> EmptyArray,
     driving |-> [t |-> "object", runDistance |-> Num(300), engineStartCount |-> Num(12),
                  engineIdleTime |-> Num(40), engineOnTime |-> Num(600)],
     vehicleStatus |-> [t |-> "object", tpmsSupport |-> Num(1),
                        tirePressure |-> [t |-> "object",
                                          tirePressureLampAll |-> Str(<<1>>)]]]

\* The payloads of tripInfo: of a month (tripPeriodType 0) and of a day (1).
MonthTrips(tripDayList) ==
    [t |-> "object", tripDayList |-> tripDayList, tripDrvTime |-> Num(50),
     tripIdleTime |-> Num(5), tripDist |-> Num(30), tripAvgSpeed |-> Num(40),
     tripMaxSpeed |-> Num(90)]
SampleMonthDay ==
    [t |-> "object", tripDayInMonth |-> Str(<<2, 0, 2, 4, 0, 5, 0, 7>>), tripCntDay |-> Num(2)]
SampleTrip ==
    [t |-> "object", tripTime |-> Str(<<0, 8, 3, 0, 0, 0>>), tripDrvTime |-> Num(25),
     tripIdleTime |-> Num(2), tripAvgSpeed |-> Num(40), tripMaxSpeed |-> Num(90),
     tripDist |-> Num(15)]
DayTrip(tripList) ==
    [t |-> "object", tripDay |-> Str(<<2, 0, 2, 4, 0, 5, 0, 7>>), dayTripCnt |-> Num(1),
     tripDist |-> Num(15), tripDrvTime |-> Num(25), tripIdleTime |-> Num(2),
     tripAvgSpeed |-> Num(40), tripMaxSpeed |-> Num(90), tripList |-> tripList]
DayTrips(dayTripList) == [t |-> "object", dayTripList |-> dayTripList]

TripMsgs(tripPeriodType) ==
    IF tripPeriodType = 0
    THEN {Undefined, MonthTrips(Undefined),
          MonthTrips([t |-> "array", items |-> <<SampleMonthDay>>])}
    ELSE {Undefined, DayTrips(Undefined),
          DayTrips([t |-> "array",
                    items |-> <<DayTrip([t |-> "array", items |-> <<SampleTrip>>]),
                                DayTrip(Undefined)>>])}

\* The dates given to tripInfo: without a day, and with the days 0, 7 and 15.
TripDates == [year : {2024}, month : {5}, day : {Undefined, Num(0), Num(7), Num(15)}]

SampleLine ==
    [t |-> "object", drivingPeriod |-> Num(0), drivingDate |-> Str(<<2, 0, 2, 4, 0, 5, 0, 7>>),
     totalPwrCsp |-> Num(900), motorPwrCsp |-> Num(700), climatePwrCsp |-> Num(100),
     eDPwrCsp |-> Num(60), batteryMgPwrCsp |-> Num(40), regenPwr |-> Num(150),
     calculativeOdo |-> Num(12)]
SampleLines == [t |-> "array", items |-> <<SampleLine>>]
HistoryMsg(lines) == [t |-> "object", drivingInfo |-> lines, drivingInfoDetail |-> lines]

SampleTargets ==
    [t |-> "object",
     targetSOClist |->
        [t |-> "array",
         items |-> <<[t |-> "object", plugType |-> Num(0), targetSOClevel |-> Num(80),
                      drvDistance |-> Undefined],
                     [t |-> "object", plugType |-> Num(1), targetSOClevel |-> Num(90),
                      drvDistance |-> Undefined]>>]]

\* The targets given to setChargeTargets: two allowed values and one that is not.
ChargeLimits == [fast : {50, 55, 90}, slow : {50, 55, 90}]

Init == ccs2 \in BOOLEAN /\ InitHandle

Next ==
    \/ \E r \in CommandResponses : start([temperature |-> 21, defrost |-> FALSE], r)
    \/ \E r \in CommandResponses : stop(r)
    \/ \E r \in CommandResponses : lock(r)
    \/ \E r \in CommandResponses : unlock(r)
    \/ \E r \in CommandResponses : setWindows([backLeft |-> 1], r)
    \/ \E c \in [refresh : BOOLEAN, parsed : {FALSE}] :
       \E sr \in Responses({SampleBody(ccs2)}, {SampleBody(ccs2)}) :
       \E lr \in {Rejected, Response(200, NoHeaders, Undefined),
                  Response(200, NoHeaders, SampleGps)} :
       \E or \in {Rejected, Response(200, NoHeaders, Undefined),
                  Response(200, NoHeaders, OdometerMsg(200))} :
           fullStatus(c, sr, lr, or)
    \/ \E c \in StatusConfigs : \E r \in Responses({Undefined} \cup SampleBodies(ccs2), {SampleBody(ccs2)}) :
           status(c, r)
    \/ \E r \in Responses({Undefined, OdometerMsg(100)}, {OdometerMsg(100)}) : odometer(r)
    \/ \E r \in Responses({Undefined, SampleGps}, {SampleGps}) : location(r)
    \/ \E r \in CommandResponses : startCharge(r)
    \/ \E r \in CommandResponses : stopCharge(r)
    \/ \E r \in Responses({Undefined, ReportMsg(Undefined), ReportMsg(BareReport),
                           ReportMsg(FullReport)}, {ReportMsg(FullReport)}) :
           monthlyReport([year |-> 2024, month |-> 5], r)
    \/ \E d \in TripDates : \E r \in Responses(TripMsgs(tripInfoBody(d).tripPeriodType), {Undefined}) :
           tripInfo(d, r)
    \/ \E r \in Responses({Undefined, HistoryMsg(Undefined), HistoryMsg(SampleLines)},
                          {HistoryMsg(SampleLines)}) :
           driveHistory("DAY", r)
    \/ \E r \in Responses({Undefined, SampleTargets}, {SampleTargets}) : getChargeTargets(r)
    \/ \E l \in ChargeLimits : \E r \in CommandResponses : setChargeTargets(l, r)
    \/ \E r \in CommandResponses : setNavigation(EmptyArray, r)

Spec == Init /\ [][Next]_vars

\* The CCS2 payload lacks state.Vehicle, state.Vehicle.Chassis.Axle or
\* state.Vehicle.Cabin.Door.
NoVehicle(body) == Nullish(Field(body.state, "Vehicle"))
NoAxle(body) == ~NoVehicle(body) /\ Nullish(Field(body.state.Vehicle.Chassis, "Axle"))
NoDoor(body) == ~NoVehicle(body) /\ Nullish(Field(body.state.Vehicle.Cabin, "Door"))

\* C2: for a CCS2 vehicle, status() on a payload without state.Vehicle, without
\* state.Vehicle.Chassis.Axle or without state.Vehicle.Cabin.Door fails with
\* the 'missing vehicle state' error in each of the three cases, returns no
\* status and leaves the cached status as it was.
C2_MalformedPayload ==
    [][(/\ OperationStep
        /\ ccs2
        /\ last'.op = "status"
        /\ last'.received # <<>>
        /\ ~Nullish(last'.received[1].resMsg)
        /\ \/ NoVehicle(last'.received[1].resMsg)
           \/ NoAxle(last'.received[1].resMsg)
           \/ NoDoor(last'.received[1].resMsg))
       => (/\ last'.err = MissingVehicleState
           /\ last'.result = Undefined
           /\ _status' = _status)]_vars

\* C2, the two cases of the three in which the code does as claimed: without
\* Axle or without Door (and with state.Vehicle) status() fails with the
\* 'missing vehicle state' error and the cached status stays.
C2_AxleOrDoorMissing ==
    [][(/\ OperationStep
        /\ ccs2
        /\ last'.op = "status"
        /\ last'.received # <<>>
        /\ ~Nullish(last'.received[1].resMsg)
        /\ \/ NoAxle(last'.received[1].resMsg)
           \/ NoDoor(last'.received[1].resMsg))
       => (/\ last'.err = MissingVehicleState
           /\ last'.result = Undefined
           /\ _status' = _status)]_vars

\* The allowed charge targets.
AllowedTargets == {50, 60, 70, 80, 90, 100}

\* C3: setChargeTargets(fast, slow) sends the charge-target command if and only
\* if both fast and slow are allowed values, and then the one command carries
\* both; otherwise it fails with the error whose message lists the allowed
\* values, and no request is sent.
C3_ChargeTargetsValidated ==
    last.op = "setChargeTargets" =>
        LET valid == last.arg.fast \in AllowedTargets /\ last.arg.slow \in AllowedTargets IN
        /\ valid <=> last.requests # <<>>
        /\ valid =>
            /\ last.requests =
                 <<Request("POST", <<"charge", "target">>,
                           [targetSOClist |->
                               <<[plugType |-> "FAST", targetSOClevel |-> last.arg.fast],
                                 [plugType |-> "SLOW", targetSOClevel |-> last.arg.slow]>>])>>
            /\ last.err \in {NoError, RequestError}
        /\ ~valid =>
            /\ last.err.name = "ManagedBluelinkyError"
            /\ {last.err.joined[i] : i \in DOMAIN last.err.joined} = AllowedTargets
            /\ last.received = <<>>

\* C3 witness: setChargeTargets(55, 90) was called and rejected without a request.
C3_Witness ==
    /\ last.op = "setChargeTargets"
    /\ last.arg = [fast |-> 55, slow |-> 90]
    /\ last.requests = <<>>
    /\ last.err = ChargeTargetError(<<50, 60, 70, 80, 90, 100>>)

\* The public operations of the handle.
PublicOperations ==
    {"start", "stop", "lock", "unlock", "setWindows", "status", "fullStatus", "odometer",
     "location", "startCharge", "stopCharge", "monthlyReport", "tripInfo", "driveHistory",
     "getChargeTargets", "setChargeTargets", "setNavigation"}

\* C7: every response a public operation receives is given to the rate tracker
\* before the operation ends.
C7_EveryResponseObserved ==
    last.op \in PublicOperations => last.observed = last.received

\* C7 for the operations other than driveHistory, which do as claimed.
C7_AllButDriveHistory ==
    (last.op \in PublicOperations /\ last.op # "driveHistory") => last.observed = last.received

\* C8: an operation that ends in an error leaves the four caches as they were,
\* and a fullStatus() that returns has written its caches together.
C8_CachesOnlyOnSuccess ==
    [][/\ (OperationStep /\ last'.err # NoError) => caches' = caches
       /\ (OperationStep /\ last'.op = "fullStatus" /\ last'.err = NoError)
            => (_fullStatus' = last'.result /\ _odometer' = last'.result.odometer)]_vars

\* C8 for the operations other than fullStatus, which do as claimed.
C8_AllButFullStatus ==
    [][(OperationStep /\ last'.err # NoError /\ last'.op # "fullStatus")
            => caches' = caches]_vars

\* A result of the monthly shape: an object with a days list and speed avg/max.
IsTripMonth(result) ==
    /\ result.t = "object"
    /\ IsArray(result.days)
    /\ DOMAIN result.speed = {"avg", "max"}

\* A result of the daily shape: an array of days, each with a trips list.
IsTripDays(result) ==
    /\ IsArray(result)
    /\ \A i \in DOMAIN result.items : IsArray(result.items[i].trips)

\* C10: what tripInfo returns is selected by whether the date has a day: without
\* one, a month object with a days list (empty when the vendor's is absent) and
\* speed avg/max; with one, whatever its value, the request is the per-day one
\* and the result an array of days, each with a trips list, or undefined when
\* the vendor's day list is absent.
C10_TripShapeByDay ==
    (last.op = "tripInfo" /\ last.err = NoError) =>
        IF last.arg.day = Undefined
        THEN /\ last.requests[1].body.tripPeriodType = 0
             /\ IsTripMonth(last.result)
             /\ Nullish(Field(last.received[1].resMsg, "tripDayList"))
                  => last.result.days = EmptyArray
        ELSE /\ last.requests[1].body.tripPeriodType = 1
             /\ last.requests[1].body.setTripDay # Undefined
             /\ IF Nullish(last.received[1].resMsg.dayTripList)
                THEN last.result = Undefined
                ELSE IsTripDays(last.result)

\* C10 for the dates whose day is not 0: there the code does as claimed.
C10_TripShapeByTruthyDay ==
    (last.op = "tripInfo" /\ last.err = NoError /\ last.arg.day # Num(0)) =>
        IF last.arg.day = Undefined
        THEN /\ last.requests[1].body.tripPeriodType = 0
             /\ IsTripMonth(last.result)
             /\ Nullish(Field(last.received[1].resMsg, "tripDayList"))
                  => last.result.days = EmptyArray
        ELSE /\ last.requests[1].body.tripPeriodType = 1
             /\ last.requests[1].body.setTripDay = Str(toDayDate(last.arg))
             /\ IF Nullish(last.received[1].resMsg.dayTripList)
                THEN last.result = Undefined
                ELSE IsTripDays(last.result)

\* The HTTP exchange of the last operation succeeded: each request it sent
\* was answered, with status 200.
ExchangeSucceeded ==
    /\ last.op \in PublicOperations
    /\ last.requests # <<>>
    /\ Len(last.received) = Len(last.requests)
    /\ \A k \in DOMAIN last.received : last.received[k].statusCode = 200

\* C13: the handle itself raises only the CCS2 'missing vehicle state' error
\* and the invalid charge-target error; when the HTTP exchange of an operation
\* succeeds, missing data in the response (a body without resMsg in status(),
\* odometer() or daily tripInfo(), for example) never makes it fail.
C13_OnlyTwoErrors ==
    /\ ExchangeSucceeded => last.err \in {NoError, MissingVehicleState}
    /\ (last.op \in PublicOperations /\ last.requests = <<>>)
            => last.err = ChargeTargetError(POSSIBLE_CHARGE_LIMIT_VALUES)

\* C13 with the errors the code does raise after a successful exchange: also
\* the 'missing vehicle status' error of status() and TypeError.
C13_ErrorsAfterExchange ==
    ExchangeSucceeded
        => last.err \in {NoError, MissingVehicleState, MissingVehicleStatus, TypeError}

\* C15: for a legacy handle, fullStatus() requests the vehicle-status path
\* that status() requests for the same refresh value.
C15_SameRefreshMeaning ==
    (~ccs2 /\ last.op = "fullStatus") =>
        last.requests[1].path = statusUrl(FALSE, last.arg)

\* C15 as the code has it: fullStatus() requests the path that status()
\* requests for the opposite refresh value.
C15_OppositeRefreshMeaning ==
    (~ccs2 /\ last.op = "fullStatus") =>
        last.requests[1].path = statusUrl(FALSE, [last.arg EXCEPT !.refresh = ~@])

-----------------------------------------------------------------------------
(* SpecConcurrent: status() calls in flight together on one handle.  A     *)
(* call runs from one await to the next without another call running:      *)
(* from the call to await getVehicleHttpService(), from there to            *)
(* await http.get(), and from the response to its end.                     *)

\* status(input) is called: it runs to await this.getVehicleHttpService().
CallStatus(i, statusConfig) ==
    /\ calls[i].pc = "idle"
    /\ calls' = [calls EXCEPT ![i] = [pc |-> "service", statusConfig |-> statusConfig]]
    /\ UNCHANGED <<ccs2, serverRates, _status, _odometer, _location, _fullStatus,
                   now, order, last, tracked>>

\* The service is there: the call sends its request and awaits the response.
SendStatus(i) ==
    /\ calls[i].pc = "service"
    /\ calls' = [calls EXCEPT ![i] =
                    [pc |-> "request", statusConfig |-> calls[i].statusConfig,
                     request |-> Request("GET", statusUrl(ccs2, calls[i].statusConfig),
                                         Undefined)]]
    /\ UNCHANGED <<ccs2, serverRates, _status, _odometer, _location, _fullStatus,
                   now, order, last, tracked>>

\* The response of call i arrives (or its request is rejected): the call runs
\* to its end.
RespondStatus(i, response) ==
    /\ calls[i].pc = "request"
    /\ IF response = Rejected
       THEN /\ calls' = [calls EXCEPT ![i] =
                            [pc |-> "done", statusConfig |-> calls[i].statusConfig,
                             response |-> response, err |-> RequestError,
                             result |-> Undefined]]
            /\ UNCHANGED <<serverRates, _status, order>>
       ELSE LET out == statusOf(ccs2, calls[i].statusConfig, response, _status) IN
            /\ serverRates' = updateRates(serverRates, response.headers, now)
            /\ _status' = IF out.err = NoError THEN out.value ELSE _status
            /\ order' = IF out.err = NoError THEN Append(order, i) ELSE order
            /\ calls' = [calls EXCEPT ![i] =
                            [pc |-> "done", statusConfig |-> calls[i].statusConfig,
                             response |-> response, err |-> out.err, result |-> out.value]]
    /\ UNCHANGED <<ccs2, _odometer, _location, _fullStatus, now, last, tracked>>

\* A second legacy payload, with a total range, and a second CCS2 payload.
OtherBody(isCCS2) ==
    IF isCCS2 THEN CCS2Body([SampleVehicleState EXCEPT !.DTETotal = Num(80)])
    ELSE [SampleLegacyBody EXCEPT
            !.evStatus.drvDistance.items[1].rangeByFuel.totalAvailableRange = Num(80)]

NextConcurrent ==
    \/ \E i \in 1..MaxCalls : \E statusConfig \in StatusConfigs : CallStatus(i, statusConfig)
    \/ \E i \in 1..MaxCalls : SendStatus(i)
    \/ \E i \in 1..MaxCalls :
       \E response \in Responses({Undefined, SampleBody(ccs2), OtherBody(ccs2)},
                                 {SampleBody(ccs2)}) :
           RespondStatus(i, response)

SpecConcurrent == Init /\ [][NextConcurrent]_vars

\* The normalization of the response of call i: the parsed status with the
\* range rule applied or, for a call that asked for the raw status, the payload.
OwnNormalization(i) ==
    IF calls[i].statusConfig.parsed THEN normalized(ccs2, calls[i].response).value
    ELSE calls[i].response.resMsg

\* C9: of status() calls in flight together, under every interleaving of
\* their responses, each call that returns returns the normalization of its
\* own response, and once all have ended the cached status is the result of
\* the call that was normalized last.
C9_ConcurrentStatus ==
    /\ \A i \in 1..MaxCalls :
         (calls[i].pc = "done" /\ calls[i].err = NoError)
            => calls[i].result = OwnNormalization(i)
    /\ order # <<>> => _status = OwnNormalization(order[Len(order)])
    /\ order = <<>> => _status = Undefined

\* C9 witness: two calls have ended, call 2 was normalized first and call 1
\* second, their results differ, and the cache holds the result of call 1.
C9_Witness ==
    /\ calls[1].pc = "done" /\ calls[2].pc = "done"
    /\ order = <<2, 1>>
    /\ calls[1].result # calls[2].result
    /\ calls[1].result = OwnNormalization(1)
    /\ calls[2].result = OwnNormalization(2)
    /\ _status = calls[1].result

=============================================================================
